---------------------------- MODULE Spec2Model ----------------------------
(***************************************************************************)
(* A model of lanczosEigensolver.py: the three numerical kernels           *)
(* LanczosTri, NSI and IPI, each as a state machine over its local         *)
(* variables and its position in the code.                                 *)
(*                                                                         *)
(* Numbers.  The kernels compute in IEEE doubles; the model computes in    *)
(* exact arithmetic over the integers and says where rounding can make the *)
(* two differ:                                                             *)
(*   - a unit vector q is kept as a primitive integer vector qv, and       *)
(*     stands for qv / |qv|;                                               *)
(*   - the Lanczos residual r is kept as [vec, den] and stands for         *)
(*     vec / (den * |qv|), qv being the current q;                         *)
(*   - a scalar is a fraction <<num, den>>, den > 0, in lowest terms;      *)
(*   - where the exact residual is the zero vector and the arithmetic that *)
(*     produced it was not exact in binary floating point, the computed    *)
(*     residual is either exactly zero or a rounding residue, a tiny       *)
(*     nonzero vector whose direction the rounding errors of the build     *)
(*     decide: both outcomes are kept, and the direction of a residue, and *)
(*     every value computed from it, is not represented (a "rounded"       *)
(*     value).  A column the QR makes of rounded columns is an orthonormal *)
(*     column that is not represented either (a "free" column), unless the *)
(*     columns before it leave it one direction.                           *)
(* NSI is computed in fractions for symmetric inputs of dimension 1 and 2, *)
(* the rounding of a residual kept where it can decide the loop test.  IPI *)
(* is computed exactly for 1 x 1 inputs; the estimates of larger inputs    *)
(* are rounded values, kept by their relation to the tolerance.            *)
(***************************************************************************)
EXTENDS Integers, Sequences, FiniteSets, TLC

VARIABLES lanczos, nsi, ipi, ipiTwin

vars == <<lanczos, nsi, ipi, ipiTwin>>

(***************************************************************************)
(* Bounds of the model.                                                    *)
(***************************************************************************)
\* Entries of the enumerated input matrices lie in -MaxEntry .. MaxEntry.
MaxEntry == 1

\* Dimensions of the enumerated input matrices of LanczosTri.  The integer
\* arithmetic of the model stays within 32 bits up to dimension 3; three
\* inputs of dimension 4 are added by name (Exact4, Split4, Diag1234).
LanczosDims == {1, 2, 3}

(***************************************************************************)
(* Integer vectors and matrices.                                           *)
(***************************************************************************)
Abs(x) == IF x < 0 THEN -x ELSE x

RECURSIVE GcdNat(_, _)
GcdNat(a, b) == IF b = 0 THEN a ELSE GcdNat(b, a % b)

Gcd(a, b) == GcdNat(Abs(a), Abs(b))

RECURSIVE DotUpTo(_, _, _)
DotUpTo(x, y, k) == IF k = 0 THEN 0 ELSE DotUpTo(x, y, k - 1) + x[k] * y[k]

\* x.T @ y
Dot(x, y) == DotUpTo(x, y, Len(x))

\* A @ x
MatVec(M, x) == [i \in 1..Len(M) |-> Dot(M[i], x)]

NormSq(x) == Dot(x, x)

RECURSIVE VecGcdUpTo(_, _)
VecGcdUpTo(x, k) == IF k = 0 THEN 0 ELSE Gcd(VecGcdUpTo(x, k - 1), x[k])

VecGcd(x) == VecGcdUpTo(x, Len(x))

IsZeroVec(x) == \A i \in 1..Len(x) : x[i] = 0

\* The primitive integer vector with the direction of x.
Primitive(x) == IF IsZeroVec(x) THEN x
                ELSE LET g == VecGcd(x) IN [i \in 1..Len(x) |-> x[i] \div g]

Ones(n) == [i \in 1..n |-> 1]

Zeros(n) == [i \in 1..n |-> 0]

Frac(num, den) ==
    LET g == Gcd(num, den)
        s == IF den < 0 THEN -1 ELSE 1
    IN  IF g = 0 THEN <<0, 1>> ELSE <<s * (num \div g), s * (den \div g)>>

\* [vec, den] in lowest terms.
Reduce(vec, den) ==
    LET g == Gcd(VecGcd(vec), den)
    IN  [vec |-> [i \in 1..Len(vec) |-> vec[i] \div g], den |-> den \div g]

\* Fractions <<num, den>>, den > 0, in lowest terms.
FAdd(a, b) ==
    LET g == Gcd(a[2], b[2])
    IN  Frac(a[1] * (b[2] \div g) + b[1] * (a[2] \div g), (a[2] \div g) * b[2])

FMul(a, b) ==
    LET x == Frac(a[1], b[2])
        y == Frac(b[1], a[2])
    IN  Frac(x[1] * y[1], x[2] * y[2])

FNeg(a) == <<-a[1], a[2]>>

\* a <= b: by the integer parts, and by the fractional parts when those are
\* equal (the products stay small).
FLeq(a, b) ==
    LET ia == a[1] \div a[2]
        ib == b[1] \div b[2]
    IN  \/ ia < ib
        \/ (ia = ib /\ (a[1] % a[2]) * b[2] <= (b[1] % b[2]) * a[2])

FAbs(a) == <<Abs(a[1]), a[2]>>

\* a / b, b nonzero.
FDiv(a, b) == FMul(a, Frac(b[2], b[1]))

\* M as a matrix of fractions.
AsFractions(M) ==
    [i \in 1..Len(M) |-> [k \in 1..Len(M) |-> <<M[i][k], 1>>]]

IsSymmetric(M) == \A i, k \in 1..Len(M) : M[i][k] = M[k][i]

SymMats(n, lo, hi) ==
    {M \in [1..n -> [1..n -> lo..hi]] : IsSymmetric(M)}

(***************************************************************************)
(* LanczosTri (lines 75-124).                                              *)
(***************************************************************************)
\* A 4 x 4 input on which every floating-point operation of LanczosTri is
\* exact (q = ones/2, every norm a power of two) and the residual first
\* vanishes in the last loop step, j = n = 4.
Exact4 == << <<-1, 0, 0, 0>>, <<0, 0, -1, 0>>, <<0, -1, 1, 0>>, <<0, 0, 0, 0>> >>

\* A 4 x 4 input on which the arithmetic is exact and the residual vanishes
\* at j = 2 < n.
Split4 == << <<1, 0, 0, 0>>, <<0, 1, 0, 0>>, <<0, 0, -1, 0>>, <<0, 0, 0, -1>> >>

\* The example of the specification: diag(1, 2, 3, 4).
Diag1234 == << <<1, 0, 0, 0>>, <<0, 2, 0, 0>>, <<0, 0, 3, 0>>, <<0, 0, 0, 4>> >>

LanczosInputs ==
    UNION {SymMats(n, -MaxEntry, MaxEntry) : n \in LanczosDims}
        \cup {Exact4, Split4, Diag1234}

\* q.T @ r for q = qv/|qv| and r = rvec/(rden*|qv|).
Rayleigh(qv, rvec, rden) == Frac(Dot(qv, rvec), rden * NormSq(qv))

\* r - a1*q with a1 = q.T @ r (lines 89-90 and 98-99): the part of r
\* orthogonal to q.
SubtractProjection(qv, rvec, rden) ==
    LET nq == NormSq(qv)
        c  == Dot(qv, rvec)
    IN  Reduce([i \in 1..Len(qv) |-> nq * rvec[i] - c * qv[i]], rden * nq)

\* A @ q - b1*v (line 97) for q = r/b1: with r = g*qv/(rden*|vv|) the old
\* residual, b1 = g*|qv|/(rden*|vv|).
Recurrence(M, qv, vv, g, rden) ==
    LET nv == NormSq(vv)
        nq == NormSq(qv)
        Aq == MatVec(M, qv)
    IN  Reduce([i \in 1..Len(qv) |-> rden * nv * Aq[i] - g * nq * vv[i]],
               rden * nv)

\* x/norm(x) is exactly representable when its entries are 0, +-1/2 or +-1.
ExactUnit(qv) ==
    /\ \A i \in 1..Len(qv) : qv[i] \in {-1, 0, 1}
    /\ NormSq(qv) \in {1, 4}

\* A vector of the computation is one of:
\*   exact:   dir/|dir|, up to the rounding of its entries;
\*   rounded: the normalised rounding residue q = r/b1, or a vector computed
\*            from one: its direction is whatever the rounding errors of the
\*            build make it, and is not represented;
\*   free:    a column of an orthogonal factor that is orthonormal to the
\*            columns before it and otherwise set by rounded columns.
ExactVec(d) == [kind |-> "exact", dir |-> d]
RoundedVec == [kind |-> "rounded", dir |-> << >>]
FreeVec == [kind |-> "free", dir |-> << >>]

\* A scalar of the computation: a fraction, or a value computed from a
\* rounded vector, which is not represented.
ExactNum(x) == [known |-> TRUE, val |-> x]
RoundedNum == [known |-> FALSE, val |-> <<0, 1>>]

\* Component of d orthogonal to the (mutually orthogonal) columns cols[1..k].
RECURSIVE OrthoAgainst(_, _, _)
OrthoAgainst(d, cols, k) ==
    IF k = 0 THEN d
    ELSE LET u == OrthoAgainst(d, cols, k - 1)
             c == cols[k]
         IN  IF IsZeroVec(c) THEN u
             ELSE Primitive([i \in 1..Len(d) |->
                                NormSq(c) * u[i] - Dot(u, c) * c[i]])

\* The representative of a direction up to sign: first nonzero entry positive.
RECURSIVE FirstNonZero(_, _)
FirstNonZero(x, k) ==
    IF k > Len(x) THEN 0 ELSE IF x[k] # 0 THEN x[k] ELSE FirstNonZero(x, k + 1)

UpToSign(x) == IF FirstNonZero(x, 1) < 0 THEN [i \in 1..Len(x) |-> -x[i]] ELSE x

\* The column the QR puts in the place of x, the columns done before it:
\* the part of x orthogonal to them, up to sign (the zero vector when x
\* depends on them).
NextColumnRaw(x, done) == UpToSign(x)
NextColumn(x, done) == UpToSign(OrthoAgainst(x, done, Len(done)))

\* The i-th unit vector of length n.
Unit(n, i) == [k \in 1..n |-> IF k = i THEN 1 ELSE 0]

\* The direction orthogonal to n - 1 independent, mutually orthogonal
\* columns, up to sign: that of the part orthogonal to them of any vector
\* that has one, here the first such unit vector.
RECURSIVE ComplementFrom(_, _, _)
ComplementFrom(done, n, i) ==
    LET c == NextColumn(Unit(n, i), done)
    IN  IF i = n \/ ~IsZeroVec(c) THEN c ELSE ComplementFrom(done, n, i + 1)

Complement(done, n) == ComplementFrom(done, n, 1)

Dirs(cols) == [i \in 1..Len(cols) |-> cols[i].dir]

AllExact(cols) == \A i \in 1..Len(cols) : cols[i].kind = "exact"

\* Column k of the orthogonal factor of cols, the columns done before it: the
\* part of an exact column orthogonal to exact columns before it; in the
\* place of a rounded column, or after one, an orthonormal column that is not
\* represented, unless it is the last of n columns after n - 1 exact ones,
\* which leave it one direction.
QrColumn(col, done, n) ==
    LET u == IF col.kind = "exact" /\ AllExact(done)
             THEN NextColumn(col.dir, Dirs(done)) ELSE Zeros(n)
    IN  IF ~IsZeroVec(u) THEN ExactVec(u)
        ELSE IF AllExact(done) /\ Len(done) = n - 1
        THEN ExactVec(Complement(Dirs(done), n))
        ELSE FreeVec

RECURSIVE QrUpTo(_, _, _)
QrUpTo(cols, k, n) ==
    IF k = 0 THEN << >>
    ELSE LET done == QrUpTo(cols, k - 1, n)
         IN  Append(done, QrColumn(cols[k], done, n))

\* numpy.linalg.qr(V)[0] (line 106): Householder QR, whose factor always has
\* orthonormal columns.  The factor is unique up to the sign of each column,
\* which LAPACK fixes; a column is kept up to that sign.
ReorthSkipped(V, n) == V
Reorthogonalize(V, n) ==
    [cols |-> QrUpTo(V.cols, Len(V.cols), n)]

\* np.hstack((V, q)) (line 103).
AppendColumn(V, q) == [cols |-> Append(V.cols, q)]

\* The residuals the floating-point computation of lines 90 and 99 can leave
\* where the exact residual is res: res itself when it is nonzero or the
\* arithmetic was exact, and otherwise exactly zero or a rounding residue, a
\* tiny nonzero vector whose direction the rounding errors decide.
RoundedResidual(res, exact) ==
    IF ~IsZeroVec(res.vec) \/ exact
    THEN {[kind |-> "exact", vec |-> res.vec, den |-> res.den]}
    ELSE {[kind |-> "exact", vec |-> res.vec, den |-> res.den],
          [kind |-> "residue", vec |-> << >>, den |-> 1]}

\* The residuals lines 97-99 can leave when q is a rounded vector: exactly
\* zero, or a nonzero vector that is not represented.
ResidualOfRounded(n) ==
    {[kind |-> "exact", vec |-> Zeros(n), den |-> 1],
     [kind |-> "rounded", vec |-> << >>, den |-> 1]}

\* norm(r) (lines 91 and 100): its kind, and its square as a fraction when r
\* is exact.
NormOf(r, qv) ==
    IF r.kind # "exact" THEN [kind |-> r.kind, sq |-> <<0, 1>>]
    ELSE IF IsZeroVec(r.vec) THEN [kind |-> "zero", sq |-> <<0, 1>>]
    ELSE [kind |-> "pos", sq |-> Frac(NormSq(r.vec), r.den * r.den * NormSq(qv))]

\* b1 == 0 (line 110).
IsZeroNorm(b) == b.kind = "zero"

\* V.T @ A @ V (line 122) for V of integer columns cols: entry (i,k) is
\* num / sqrt(nsqRow * nsqCol), the two being the squared lengths of columns
\* i and k; an entry off the diagonal is determined up to the signs of
\* columns i and k.
TMatrix(M, cols) ==
    [i \in 1..Len(cols) |-> [k \in 1..Len(cols) |->
        [num    |-> Dot(cols[i], MatVec(M, cols[k])),
         nsqRow |-> NormSq(cols[i]),
         nsqCol |-> NormSq(cols[k])]]]

\* T = V.T @ A @ V (line 122): its entries when every column of V is exact;
\* with free columns in V the entries are not represented.
Tridiagonal(M, V) ==
    IF AllExact(V.cols)
    THEN [known |-> TRUE, entries |-> TMatrix(M, Dirs(V.cols))]
    ELSE [known |-> FALSE, entries |-> << >>]

NoVec == [kind |-> "none", dir |-> << >>]
NoRes == [kind |-> "none", vec |-> << >>, den |-> 1]
NoNorm == [kind |-> "none", sq |-> <<0, 1>>]
NoBasis == [cols |-> << >>]
NoT == [known |-> FALSE, entries |-> << >>]
NoResult == [kind |-> "none", rows |-> 0, cols |-> 0]

LanczosIdle ==
    [pc |-> "idle", A |-> << >>, n |-> 0, q |-> NoVec, v |-> NoVec, r |-> NoRes,
     a1 |-> RoundedNum, b1 |-> NoNorm, V |-> NoBasis, j |-> 0, ctr |-> 0,
     T |-> NoT, exact |-> TRUE, divzero |-> FALSE, result |-> NoResult]

LanczosCall(M) == [LanczosIdle EXCEPT !.pc = "start", !.A = M, !.n = Len(M)]

\* Lines 81-92: the first Lanczos vector, its residual and b1.
LanczosBegin ==
    /\ lanczos.pc = "start"
    /\ LET n   == lanczos.n
           qv  == Ones(n)
           ex  == ExactUnit(qv)
           Aq  == Reduce(MatVec(lanczos.A, qv), 1)
           res == SubtractProjection(qv, Aq.vec, Aq.den)
       IN  \E r \in RoundedResidual(res, ex) :
             lanczos' = [lanczos EXCEPT
                 !.pc = "loop", !.q = ExactVec(qv),
                 !.V = [cols |-> <<ExactVec(qv)>>],
                 !.a1 = ExactNum(Rayleigh(qv, Aq.vec, Aq.den)), !.r = r,
                 !.b1 = NormOf(r, qv), !.exact = ex, !.j = 2, !.ctr = 0]
    /\ UNCHANGED <<nsi, ipi, ipiTwin>>

\* Lines 95-100 with b1 == 0: q = r/b1 is 0/0, a vector of NaNs, and
\* scipy.linalg.norm (which checks its argument for NaNs) raises at line 100.
LanczosRecurNaN ==
    /\ lanczos.pc = "loop"
    /\ lanczos.j <= lanczos.n
    /\ IsZeroNorm(lanczos.b1)
    /\ lanczos' = [lanczos EXCEPT !.pc = "raised", !.v = lanczos.q,
                      !.divzero = TRUE,
                      !.result = [kind |-> "ValueError", rows |-> 0, cols |-> 0]]
    /\ UNCHANGED <<nsi, ipi, ipiTwin>>

\* Lines 95-100 for an exact nonzero r: one step of the three-term
\* recurrence.
ExactStep(f) ==
    LET vv  == f.q.dir
        qv  == Primitive(f.r.vec)
        g   == VecGcd(f.r.vec)
        ex  == f.exact /\ ExactUnit(qv)
        r1  == Recurrence(f.A, qv, vv, g, f.r.den)
        res == SubtractProjection(qv, r1.vec, r1.den)
    IN  {[f EXCEPT !.pc = "append", !.v = f.q, !.q = ExactVec(qv),
                   !.a1 = ExactNum(Rayleigh(qv, r1.vec, r1.den)), !.r = r,
                   !.b1 = NormOf(r, qv), !.exact = ex]
            : r \in RoundedResidual(res, ex)}

\* Lines 95-100 for r a rounding residue or computed from one: q = r/b1 is a
\* rounded vector, and so is all that is computed from it.
RoundedStep(f) ==
    {[f EXCEPT !.pc = "append", !.v = f.q, !.q = RoundedVec,
               !.a1 = RoundedNum, !.r = r, !.b1 = NormOf(r, << >>),
               !.exact = FALSE]
        : r \in ResidualOfRounded(f.n)}

LanczosRecur ==
    /\ lanczos.pc = "loop"
    /\ lanczos.j <= lanczos.n
    /\ ~IsZeroNorm(lanczos.b1)
    /\ lanczos' \in (IF lanczos.r.kind = "exact" THEN ExactStep(lanczos)
                     ELSE RoundedStep(lanczos))
    /\ UNCHANGED <<nsi, ipi, ipiTwin>>

\* Line 103.
LanczosAppend ==
    /\ lanczos.pc = "append"
    /\ lanczos' = [lanczos EXCEPT !.pc = "reorth",
                      !.V = AppendColumn(lanczos.V, lanczos.q)]
    /\ UNCHANGED <<nsi, ipi, ipiTwin>>

\* Lines 106-108.
LanczosReorth ==
    /\ lanczos.pc = "reorth"
    /\ lanczos' = [lanczos EXCEPT !.pc = "check",
                      !.V = Reorthogonalize(lanczos.V, lanczos.n),
                      !.ctr = lanczos.ctr + 1]
    /\ UNCHANGED <<nsi, ipi, ipiTwin>>

\* Lines 110-112 and the loop's increment.
LanczosCheck ==
    /\ lanczos.pc = "check"
    /\ IF IsZeroNorm(lanczos.b1)
       THEN lanczos' = [lanczos EXCEPT !.pc = "returned",
                           !.result = [kind |-> "V", rows |-> lanczos.n,
                                       cols |-> Len(lanczos.V.cols)]]
       ELSE lanczos' = [lanczos EXCEPT !.pc = "loop", !.j = lanczos.j + 1]
    /\ UNCHANGED <<nsi, ipi, ipiTwin>>

\* Lines 122-124, after the loop.
LanczosFinishChecked ==
    /\ lanczos.pc = "loop"
    /\ lanczos.j > lanczos.n
    /\ lanczos' =
         IF IsZeroNorm(lanczos.b1)
         THEN [lanczos EXCEPT !.pc = "returned",
                  !.result = [kind |-> "V", rows |-> lanczos.n,
                              cols |-> Len(lanczos.V.cols)]]
         ELSE [lanczos EXCEPT !.pc = "returned",
                  !.T = Tridiagonal(lanczos.A, lanczos.V),
                  !.result = [kind |-> "T", rows |-> Len(lanczos.V.cols),
                              cols |-> Len(lanczos.V.cols)]]
    /\ UNCHANGED <<nsi, ipi, ipiTwin>>
LanczosFinish ==
    /\ lanczos.pc = "loop"
    /\ lanczos.j > lanczos.n
    /\ lanczos' = [lanczos EXCEPT !.pc = "returned",
                      !.T = Tridiagonal(lanczos.A, lanczos.V),
                      !.result = [kind |-> "T", rows |-> Len(lanczos.V.cols),
                                  cols |-> Len(lanczos.V.cols)]]
    /\ UNCHANGED <<nsi, ipi, ipiTwin>>

(***************************************************************************)
(* NSI (lines 35-52).                                                      *)
(***************************************************************************)
\* residual = 10 (line 40).
InitialResidual == 10

\* The largest tolerance and the largest maxiter NSI is called with.
MaxNsiTol == 11
MaxMaxiter == 3

IsDiagonal(M) == \A i, k \in 1..Len(M) : i # k => M[i][k] = 0

DiagMats(n, lo, hi) == {M \in SymMats(n, lo, hi) : IsDiagonal(M)}

\* The symmetric 2 x 2 inputs that are not diagonal, entries in -1..1 (with
\* larger entries the squares of the differences of the Rayleigh quotients
\* leave 32 bits within three iterations).
DenseMats == {M \in SymMats(2, -1, 1) : ~IsDiagonal(M)}

NsiInputs ==
    SymMats(1, -MaxEntry, MaxEntry) \cup DiagMats(2, -MaxEntry, MaxEntry)
        \cup DenseMats

NsiTols == -1 .. MaxNsiTol

\* np.identity(m) (line 39), as its columns.
Identity(m) == [k \in 1..m |-> Unit(m, k)]

\* A @ Q (line 44), as its columns.
MatMul(M, Q) == [k \in 1..Len(Q) |-> MatVec(M, Q[k])]

\* The orthogonal factor of qr(Y) (line 44) for Y of one or two columns, its
\* columns as integer directions c, each standing for c/|c| up to the sign
\* LAPACK gives it: the first is that of the first column of Y
\* (the first unit vector when that column is zero: the Householder
\* reflection is then the identity), the second is orthogonal to the first.
NsiQr(Y) ==
    LET m  == Len(Y)
        c1 == IF IsZeroVec(Y[1]) THEN Identity(m)[1] ELSE Primitive(Y[1])
    IN  IF m = 1 THEN <<c1>> ELSE <<c1, <<-c1[2], c1[1]>> >>

\* np.diagonal(Q.T @ A @ Q) (line 45): the Rayleigh quotients of the columns
\* of Q, as fractions.
RayleighDiagonals(M, Q) ==
    [k \in 1..Len(Q) |-> Frac(Dot(Q[k], MatVec(M, Q[k])), NormSq(Q[k]))]

RECURSIVE Insert(_, _)
Insert(x, sorted) ==
    IF sorted = << >> THEN <<x>>
    ELSE IF FLeq(x, Head(sorted)) THEN <<x>> \o sorted
    ELSE <<Head(sorted)>> \o Insert(x, Tail(sorted))

RECURSIVE SortUpTo(_, _)
SortUpTo(x, k) == IF k = 0 THEN << >> ELSE Insert(x[k], SortUpTo(x, k - 1))

\* np.sort(lam)
Sort(x) == SortUpTo(x, Len(x))

RECURSIVE DistSqUpTo(_, _, _)
DistSqUpTo(x, y, k) ==
    IF k = 0 THEN <<0, 1>>
    ELSE LET d == FAdd(x[k], FNeg(y[k]))
         IN  FAdd(DistSqUpTo(x, y, k - 1), FMul(d, d))

\* The square of norm(x - y), a fraction.
DistSq(x, y) == DistSqUpTo(x, y, Len(x))

\* The floating-point computation of lines 44-46 is exact on a diagonal A: Q
\* stays the identity (every Householder reflection of qr is the identity),
\* lam is the diagonal of A, and the norm of a vector of small integers with
\* an integer norm is that integer.  On other inputs the columns of Q are
\* normalised by square roots and every value is rounded.
NsiExact(M) == IsDiagonal(M)

\* norm(lprev - np.sort(lam)) (line 46) as computed, for sq the square of
\* its exact value: [sq, off] stands for sqrt(sq) when off = 0, for a value
\* just above it when off = 1 and just below it when off = -1.  Exact
\* arithmetic computes sqrt(sq); rounded arithmetic computes it or a
\* neighbour, never a negative value.
RoundedNorm(sq, exact) ==
    IF exact THEN {[sq |-> sq, off |-> 0]}
    ELSE IF sq[1] = 0 THEN {[sq |-> sq, off |-> 0], [sq |-> sq, off |-> 1]}
    ELSE {[sq |-> sq, off |-> d] : d \in {-1, 0, 1}}

\* norm(residual) > tol (line 43), tol an integer.
AboveTol(res, tol) ==
    \/ tol < 0
    \/ res.sq[1] > tol * tol * res.sq[2]
    \/ (res.sq[1] = tol * tol * res.sq[2] /\ res.off = 1)

Unbound == [bound |-> FALSE, val |-> << >>]

Bound(x) == [bound |-> TRUE, val |-> x]

NsiIdle ==
    [pc |-> "idle", A |-> << >>, m |-> 0, tol |-> 0, maxiter |-> 0,
     Q |-> << >>, residual |-> [sq |-> <<0, 1>>, off |-> 0], lprev |-> << >>, lam |-> Unbound,
     ctr |-> 0, result |-> [kind |-> "none", val |-> << >>]]

NsiCall(M, tol, maxiter) ==
    [NsiIdle EXCEPT !.pc = "start", !.A = M, !.tol = tol, !.maxiter = maxiter]

\* Lines 38-42.
NsiBegin ==
    /\ nsi.pc = "start"
    /\ nsi' = [nsi EXCEPT !.pc = "test", !.m = Len(nsi.A),
                  !.Q = Identity(Len(nsi.A)),
                  !.residual = [sq |-> <<InitialResidual * InitialResidual, 1>>,
                                off |-> 0],
                  !.lprev = [i \in 1..Len(nsi.A) |-> <<1, 1>>], !.ctr = 0]
    /\ UNCHANGED <<lanczos, ipi, ipiTwin>>

\* Line 43: the loop test.
NsiLoopTest(f) ==
    IF AboveTol(f.residual, f.tol) THEN [f EXCEPT !.pc = "body"]
    ELSE [f EXCEPT !.pc = "return"]

NsiTest ==
    /\ nsi.pc = "test"
    /\ nsi' = NsiLoopTest(nsi)
    /\ UNCHANGED <<lanczos, ipi, ipiTwin>>

\* Lines 44-49: one iteration, and the break at the cap; one successor for
\* each residual the computation can leave.
NsiUncapped(f) ==
    LET Q   == NsiQr(MatMul(f.A, f.Q))
        lam == RayleighDiagonals(f.A, Q)
    IN  {[f EXCEPT !.pc = "test", !.Q = Q, !.lam = Bound(lam),
                   !.residual = res, !.lprev = Sort(lam), !.ctr = f.ctr + 1]
            : res \in RoundedNorm(DistSq(f.lprev, Sort(lam)), NsiExact(f.A))}
NsiIteration(f) ==
    LET Q   == NsiQr(MatMul(f.A, f.Q))
        lam == RayleighDiagonals(f.A, Q)
    IN  {[f EXCEPT !.pc = IF f.ctr + 1 = f.maxiter THEN "return" ELSE "test",
                   !.Q = Q, !.lam = Bound(lam),
                   !.residual = res, !.lprev = Sort(lam), !.ctr = f.ctr + 1]
            : res \in RoundedNorm(DistSq(f.lprev, Sort(lam)), NsiExact(f.A))}

NsiBody ==
    /\ nsi.pc = "body"
    /\ nsi' \in NsiIteration(nsi)
    /\ UNCHANGED <<lanczos, ipi, ipiTwin>>

\* Line 52: return(lam); lam is a local that only the loop body assigns.
NsiReturn ==
    /\ nsi.pc = "return"
    /\ nsi' = IF nsi.lam.bound
              THEN [nsi EXCEPT !.pc = "returned",
                               !.result = [kind |-> "lam", val |-> nsi.lam.val]]
              ELSE [nsi EXCEPT !.pc = "raised",
                               !.result = [kind |-> "UnboundLocalError",
                                           val |-> << >>]]
    /\ UNCHANGED <<lanczos, ipi, ipiTwin>>

(***************************************************************************)
(* IPI (lines 56-71).                                                      *)
(***************************************************************************)
\* s = -3000 (line 60), lam_old = 1 (line 62), err = 1 (line 63).
Shift == -3000
LamOldInit == 1
ErrInit == 1

MaxIpiTol == 2

IpiTols == -1 .. MaxIpiTol

\* 2 x 2 inputs with a singular B = A - s*I whose factorisation is exact in
\* doubles: B = diag(0, 3001) and B = [[1, 1], [1, 1]].
SingularDiag == << <<Shift, 0>>, <<0, 1>> >>
SingularDense == << <<Shift + 1, 1>>, <<1, Shift + 1>> >>

\* A 2 x 2 input with a singular B = [[196, 98], [98, 49]] whose
\* factorisation rounds.
RoundingSingular == << <<Shift + 196, 98>>, <<98, Shift + 49>> >>

\* The inputs on which every value IPI computes is represented: the 1 x 1
\* inputs, and inputs on which the first solve is certain to fail.
IpiExactInputs ==
    SymMats(1, -MaxEntry, MaxEntry)
        \cup { << <<Shift>> >>, SingularDiag, SingularDense }

IpiInputs ==
    IpiExactInputs \cup SymMats(2, -MaxEntry, MaxEntry) \cup {RoundingSingular}

\* B = A - s*np.identity(n) (line 61).
Shifted(M) ==
    [i \in 1..Len(M) |-> [k \in 1..Len(M) |->
        IF i = k THEN M[i][k] - Shift ELSE M[i][k]]]

RECURSIVE IsPowerOfTwo(_)
IsPowerOfTwo(d) == d = 1 \/ (d > 1 /\ d % 2 = 0 /\ IsPowerOfTwo(d \div 2))

\* A nonzero fraction that is a power of two, up to sign: its reciprocal is
\* a double, and so is its product with a double of few digits.
PowerOfTwo(a) == IsPowerOfTwo(Abs(a[1])) /\ IsPowerOfTwo(a[2])

\* The row of the entry of largest magnitude in the first column, the first
\* of them (partial pivoting).
PivotRow(B) ==
    CHOOSE p \in 1..Len(B) :
        \A i \in 1..Len(B) :
            /\ FLeq(FAbs(B[i][1]), FAbs(B[p][1]))
            /\ i < p => ~FLeq(FAbs(B[p][1]), FAbs(B[i][1]))

SwapRows(B, p) ==
    [i \in 1..Len(B) |-> IF i = 1 THEN B[p] ELSE IF i = p THEN B[1] ELSE B[i]]

\* The multipliers of the rows below the pivot row.
Multipliers(S) == [i \in 1..(Len(S) - 1) |-> FDiv(S[i + 1][1], S[1][1])]

\* The rows below the pivot row after the elimination of the first column.
Eliminate(S) ==
    [i \in 1..(Len(S) - 1) |-> [k \in 1..(Len(S) - 1) |->
        FAdd(S[i + 1][k + 1],
             FNeg(FMul(Multipliers(S)[i], S[1][k + 1])))]]

\* The elimination of the first column of S is exact in doubles: LAPACK
\* scales the column below the pivot by the rounded reciprocal of the pivot,
\* which is exact when the pivot is a power of two or the column below it is
\* zero; the multipliers are then dyadic fractions of few digits and the
\* update of the remaining rows is exact too.
ExactElimination(S) ==
    \/ PowerOfTwo(S[1][1])
    \/ \A i \in 1..(Len(S) - 1) : S[i + 1][1][1] = 0

\* Whether the LU factorisation with partial pivoting of B (LAPACK's gesv,
\* under numpy.linalg.solve) meets a pivot that is exactly zero.  Where the
\* exact pivot is zero and the elimination before it was exact in doubles
\* the computed pivot is zero; where it was not exact the computed pivot is
\* zero or a rounding residue, and both outcomes are kept.  A nonzero exact
\* pivot is nonzero as computed.
RECURSIVE LuMeetsZeroPivot(_, _)
LuMeetsZeroPivot(B, exact) ==
    IF Len(B) = 0 THEN {FALSE}
    ELSE LET S == SwapRows(B, PivotRow(B))
         IN  IF S[1][1][1] = 0
             THEN IF exact THEN {TRUE} ELSE {TRUE, FALSE}
             ELSE LuMeetsZeroPivot(Eliminate(S),
                                   exact /\ ExactElimination(S))

\* Whether solve(B, u) (line 66) raises LinAlgError: numpy raises it when the
\* factorisation reports an exactly zero pivot.
SolveFails(M) == LuMeetsZeroPivot(AsFractions(Shifted(M)), TRUE)

\* lam = 1/mu + s with mu = u.T @ solve(B, u) (lines 65-68) for a 1 x 1
\* input with a regular B: u = x/norm(x) = [1] in every iteration,
\* solve(B, u) = [1/B[0][0]] and mu = 1/B[0][0].  The estimates of larger
\* inputs are not represented.
IpiEstimate(M) ==
    CASE Len(M) = 1 ->
        LET B  == Shifted(M)
            mu == Frac(1, B[1][1])
        IN  (mu[2] \div mu[1]) + Shift

\* An estimate lam, lam_old: unassigned, an integer, or a rounded value that
\* is not represented (every estimate of an input of dimension 2 or more,
\* whose exact value leaves 32 bits from the second iteration on).
NoEstimate == [bound |-> FALSE, known |-> FALSE, val |-> 0]
Estimate(x) == [bound |-> TRUE, known |-> TRUE, val |-> x]
RoundedEstimate == [bound |-> TRUE, known |-> FALSE, val |-> 0]

\* err = np.abs(lam_old - lam) (line 69): an integer or, computed from
\* rounded estimates, a value kept by its relation to tol alone: above it
\* or within it.  err is never negative, so it is above a negative tol.
ExactErr(x) == [kind |-> "exact", val |-> x]
RoundedErr(k) == [kind |-> k, val |-> 0]
RoundedErrs(tol) ==
    IF tol < 0 THEN {RoundedErr("above")}
    ELSE {RoundedErr("above"), RoundedErr("within")}

\* err > tol (line 64).
ErrAboveTol(err, tol) ==
    IF err.kind = "exact" THEN err.val > tol ELSE err.kind = "above"

\* The loop iterations counted: a counter of the model (IPI keeps none), which
\* stops counting at IterCap.
IterCap == MaxMaxiter + 2

IpiIdle ==
    [pc |-> "idle", A |-> << >>, n |-> 0, tol |-> 0, maxiter |-> 0,
     lam_old |-> NoEstimate, err |-> ExactErr(0), lam |-> NoEstimate,
     prev |-> NoEstimate, iters |-> 0,
     result |-> [kind |-> "none", val |-> NoEstimate]]

IpiCall(M, tol, maxiter) ==
    [IpiIdle EXCEPT !.pc = "start", !.A = M, !.tol = tol, !.maxiter = maxiter]

\* Lines 58-63.
IpiSetup(f) ==
    [f EXCEPT !.pc = "test", !.n = Len(f.A), !.lam_old = Estimate(LamOldInit),
              !.err = ExactErr(ErrInit)]

\* Line 64: the loop test.
IpiLoopTest(f) ==
    IF ErrAboveTol(f.err, f.tol) THEN [f EXCEPT !.pc = "body"]
    ELSE [f EXCEPT !.pc = "return"]

\* Lines 65-70 without the solve failing: the new estimate and err, for a
\* 1 x 1 input the integers, for a larger input rounded values, err being
\* the given one.
IpiAssign(f, err) ==
    IF Len(f.A) = 1
    THEN LET lam == IpiEstimate(f.A)
         IN  [f EXCEPT !.lam = Estimate(lam), !.prev = f.lam,
                       !.err = ExactErr(Abs(f.lam_old.val - lam)),
                       !.lam_old = Estimate(lam),
                       !.iters = IF f.iters < IterCap THEN f.iters + 1
                                 ELSE f.iters]
    ELSE [f EXCEPT !.lam = RoundedEstimate, !.prev = f.lam, !.err = err,
                   !.lam_old = RoundedEstimate,
                   !.iters = IF f.iters < IterCap THEN f.iters + 1
                             ELSE f.iters]

\* Lines 65-70: one iteration, fails telling whether the solve of line 66
\* raises; a failing solve propagates out of IPI.
IpiCapped(f, fails, err) ==
    IF fails
    THEN [f EXCEPT !.pc = "raised",
                   !.result = [kind |-> "LinAlgError", val |-> NoEstimate]]
    ELSE [IpiAssign(f, err) EXCEPT
             !.pc = IF f.iters + 1 >= f.maxiter THEN "return" ELSE "test"]
IpiSwallowing(f, fails, err) ==
    IF fails
    THEN [f EXCEPT !.pc = "test", !.lam = RoundedEstimate, !.prev = f.lam,
                   !.err = err, !.lam_old = RoundedEstimate,
                   !.iters = IF f.iters < IterCap THEN f.iters + 1
                             ELSE f.iters]
    ELSE [IpiAssign(f, err) EXCEPT !.pc = "test"]
IpiIteration(f, fails, err) ==
    IF fails
    THEN [f EXCEPT !.pc = "raised",
                   !.result = [kind |-> "LinAlgError", val |-> NoEstimate]]
    ELSE [IpiAssign(f, err) EXCEPT !.pc = "test"]

\* Line 71: return(lam).
IpiExit(f) ==
    IF f.lam.bound
    THEN [f EXCEPT !.pc = "returned",
                   !.result = [kind |-> "lam", val |-> f.lam]]
    ELSE [f EXCEPT !.pc = "raised",
                   !.result = [kind |-> "UnboundLocalError",
                               val |-> NoEstimate]]

\* ipiTwin is a second call of IPI on the same A and tol with another
\* maxiter; it takes every step ipi takes, with the same values: those a
\* second run of the same floating-point computation gives.
IpiBegin ==
    /\ ipi.pc = "start"
    /\ ipi' = IpiSetup(ipi)
    /\ ipiTwin' = IpiSetup(ipiTwin)
    /\ UNCHANGED <<lanczos, nsi>>

IpiTest ==
    /\ ipi.pc = "test"
    /\ ipi' = IpiLoopTest(ipi)
    /\ ipiTwin' = IpiLoopTest(ipiTwin)
    /\ UNCHANGED <<lanczos, nsi>>

IpiBody ==
    /\ ipi.pc = "body"
    /\ \E fails \in SolveFails(ipi.A), err \in RoundedErrs(ipi.tol) :
         /\ ipi' = IpiIteration(ipi, fails, err)
         /\ ipiTwin' = IpiIteration(ipiTwin, fails, err)
    /\ UNCHANGED <<lanczos, nsi>>

IpiReturn ==
    /\ ipi.pc = "return"
    /\ ipi' = IpiExit(ipi)
    /\ ipiTwin' = IpiExit(ipiTwin)
    /\ UNCHANGED <<lanczos, nsi>>

(***************************************************************************)
(* Specifications: one per kernel.                                         *)
(***************************************************************************)
InitLanczos ==
    /\ \E M \in LanczosInputs : lanczos = LanczosCall(M)
    /\ nsi = NsiIdle
    /\ ipi = IpiIdle
    /\ ipiTwin = IpiIdle

NextLanczos ==
    \/ LanczosBegin
    \/ LanczosRecurNaN
    \/ LanczosRecur
    \/ LanczosAppend
    \/ LanczosReorth
    \/ LanczosCheck
    \/ LanczosFinish

SpecLanczos == InitLanczos /\ [][NextLanczos]_vars

InitNSI ==
    /\ lanczos = LanczosIdle
    /\ \E M \in NsiInputs, tol \in NsiTols, maxiter \in 1..MaxMaxiter :
         nsi = NsiCall(M, tol, maxiter)
    /\ ipi = IpiIdle
    /\ ipiTwin = IpiIdle

NextNSI == NsiBegin \/ NsiTest \/ NsiBody \/ NsiReturn

SpecNSI == InitNSI /\ [][NextNSI]_vars

InitIPI ==
    /\ lanczos = LanczosIdle
    /\ nsi = NsiIdle
    /\ \E M \in IpiExactInputs, tol \in IpiTols :
         \E maxiter, other \in 1..MaxMaxiter :
           /\ maxiter # other
           /\ ipi = IpiCall(M, tol, maxiter)
           /\ ipiTwin = IpiCall(M, tol, other)

InitIPIAll ==
    /\ lanczos = LanczosIdle
    /\ nsi = NsiIdle
    /\ \E M \in IpiInputs, tol \in IpiTols :
         \E maxiter, other \in 1..MaxMaxiter :
           /\ maxiter # other
           /\ ipi = IpiCall(M, tol, maxiter)
           /\ ipiTwin = IpiCall(M, tol, other)

NextIPI == IpiBegin \/ IpiTest \/ IpiBody \/ IpiReturn

\* IPI on the inputs on which every value it computes is represented.
SpecIPI == InitIPI /\ [][NextIPI]_vars

\* IPI on all the inputs.
SpecIPIAll == InitIPIAll /\ [][NextIPI]_vars

(***************************************************************************)
(* The coefficients of a characteristic polynomial.                        *)
(***************************************************************************)
\* M without row i and column k.
Minor(M, i, k) ==
    [a \in 1..(Len(M) - 1) |-> [b \in 1..(Len(M) - 1) |->
        M[IF a < i THEN a ELSE a + 1][IF b < k THEN b ELSE b + 1]]]

RECURSIVE FDet(_)
RECURSIVE FDetRow1(_, _)
FDetRow1(M, k) ==
    IF k = 0 THEN <<0, 1>>
    ELSE FAdd(FDetRow1(M, k - 1),
              FMul(IF k % 2 = 1 THEN M[1][k] ELSE FNeg(M[1][k]),
                   FDet(Minor(M, 1, k))))

\* The determinant of a matrix of fractions.
FDet(M) == IF Len(M) = 0 THEN <<1, 1>> ELSE FDetRow1(M, Len(M))

\* M restricted to the rows and columns idx[1], idx[2], ...
SubMatrix(M, idx) ==
    [a \in 1..Len(idx) |-> [b \in 1..Len(idx) |-> M[idx[a]][idx[b]]]]

Increasing(idx) == \A a, b \in 1..Len(idx) : a < b => idx[a] < idx[b]

RECURSIVE SumOfMinors(_, _)
SumOfMinors(M, S) ==
    IF S = {} THEN <<0, 1>>
    ELSE LET idx == CHOOSE y \in S : TRUE
         IN  FAdd(FDet(SubMatrix(M, idx)), SumOfMinors(M, S \ {idx}))

\* The sum of the principal k x k minors of M: up to sign, the coefficient
\* of x^(n-k) in the characteristic polynomial of M, the k-th elementary
\* symmetric function of its eigenvalues.
MinorSum(M, k) ==
    SumOfMinors(M, {idx \in [1..k -> 1..Len(M)] : Increasing(idx)})

\* A matrix of fractions with the eigenvalues of T: T scaled by
\* diag(sqrt(nsqRow)) on the right and by its inverse on the left, whose
\* entry (i,k) is num / nsqRow.
Rationalized(T) ==
    [i \in 1..Len(T) |-> [k \in 1..Len(T) |->
        Frac(T[i][k].num, T[i][k].nsqRow)]]

\* T[i][k] = T[k][i].
SymmetricT(T) ==
    \A i, k \in 1..Len(T) :
        /\ T[i][k].num = T[k][i].num
        /\ T[i][k].nsqRow = T[k][i].nsqCol

SameSpectrum(M1, M2) ==
    /\ Len(M1) = Len(M2)
    /\ \A k \in 1..Len(M1) : MinorSum(M1, k) = MinorSum(M2, k)

(***************************************************************************)
(* The claims.                                                             *)
(***************************************************************************)
LanczosReturnedT == lanczos.pc = "returned" /\ lanczos.result.kind = "T"

LanczosReturnedV == lanczos.pc = "returned" /\ lanczos.result.kind = "V"

\* The columns are those of an orthogonal factor: none is a rounded vector
\* left as appended, and those that are represented are nonzero and
\* mutually orthogonal.
OrthonormalColumns(cols) ==
    /\ \A k \in 1..Len(cols) :
          /\ cols[k].kind \in {"exact", "free"}
          /\ cols[k].kind = "exact" => ~IsZeroVec(cols[k].dir)
    /\ \A i, k \in 1..Len(cols) :
          (i # k /\ cols[i].kind = "exact" /\ cols[k].kind = "exact")
             => Dot(cols[i].dir, cols[k].dir) = 0

C2_NoDivisionByZero ==
    /\ ~lanczos.divzero
    /\ (lanczos.pc = "loop" /\ lanczos.j <= lanczos.n)
          => ~IsZeroNorm(lanczos.b1)

\* C3 (as claimed): a breakdown return has fewer than n columns, and a
\* normal return is the n x n matrix T.
C3_BreakdownIsNarrower ==
    /\ LanczosReturnedV =>
          (lanczos.result.rows = lanczos.n /\ lanczos.result.cols < lanczos.n)
    /\ LanczosReturnedT =>
          (lanczos.result.rows = lanczos.n /\ lanczos.result.cols = lanczos.n)

\* The cap of NSI: the loop body runs at most maxiter times; the loop is
\* left exactly when the residual norm is no longer above tol or ctr has
\* reached maxiter; once ctr = maxiter NSI returns the latest lam without
\* raising.
NsiCapped ==
    /\ nsi.pc # "idle" => nsi.ctr <= nsi.maxiter
    /\ nsi.pc = "body" =>
          (AboveTol(nsi.residual, nsi.tol) /\ nsi.ctr < nsi.maxiter)
    /\ nsi.pc = "return" =>
          (~AboveTol(nsi.residual, nsi.tol) \/ nsi.ctr = nsi.maxiter)
    /\ (nsi.pc # "idle" /\ nsi.ctr = nsi.maxiter) =>
          /\ nsi.pc \in {"return", "returned"}
          /\ nsi.lam.bound
          /\ nsi.pc = "returned" =>
                nsi.result = [kind |-> "lam", val |-> nsi.lam.val]

C5_IpiIgnoresMaxiter ==
    /\ [ipiTwin EXCEPT !.maxiter = ipi.maxiter] = ipi
    /\ ipi.pc = "body" => ErrAboveTol(ipi.err, ipi.tol)
    /\ ipi.pc \in {"return", "returned"} => ~ErrAboveTol(ipi.err, ipi.tol)

\* C5 witness: IPI on a 2 x 2 input still iterating after more than maxiter
\* iterations, its twin called with another maxiter.
C5_Witness ==
    /\ ipi.pc = "body"
    /\ ipi.n = 2
    /\ ipi.lam.bound
    /\ ipi.iters > ipi.maxiter
    /\ ipiTwin.iters > ipiTwin.maxiter
    /\ ipiTwin.maxiter # ipi.maxiter

\* C6: outside the step between the append and the QR, a basis V of two or
\* more columns is the orthogonal factor of a QR decomposition (the QR
\* leaves it as it is), with no column left as appended and with its
\* represented columns mutually orthogonal: at the breakdown check, at the
\* next append, at either return and where T is computed.
C6_ReorthInvariant ==
    /\ (lanczos.pc # "reorth" /\ Len(lanczos.V.cols) >= 2) =>
          /\ OrthonormalColumns(lanczos.V.cols)
          /\ lanczos.V = Reorthogonalize(lanczos.V, lanczos.n)
    /\ (lanczos.pc = "returned" /\ lanczos.n >= 2) =>
          Len(lanczos.V.cols) >= 2
    /\ lanczos.pc \in {"append", "reorth", "check"} =>
          Len(lanczos.V.cols) = lanczos.j - (IF lanczos.pc = "append" THEN 1
                                             ELSE 0)

\* C6: every append to V is followed by a QR of V before V is tested,
\* appended to again or returned: the invariant above holds in every state;
\* the only step after an append is the QR of the whole V, which leads to the
\* breakdown check; the check is reached from nowhere else; and V changes in
\* no other step of the loop.
C6_AlwaysReorthogonalized ==
    /\ []C6_ReorthInvariant
    /\ [][lanczos.pc = "append" =>
            (lanczos'.pc = "reorth"
               /\ lanczos'.V.cols = Append(lanczos.V.cols, lanczos.q))]_vars
    /\ [][lanczos.pc = "reorth" =>
            (lanczos'.pc = "check"
               /\ lanczos'.V = Reorthogonalize(lanczos.V, lanczos.n)
               /\ Len(lanczos'.V.cols) = Len(lanczos.V.cols))]_vars
    /\ [][lanczos'.pc = "check" => lanczos.pc = "reorth"]_vars
    /\ [][lanczos.pc \in {"loop", "check"} => lanczos'.V = lanczos.V]_vars

\* C6 witness: T returned for n >= 2 from a basis whose last appended column
\* was a rounded vector, which the QR replaced.
C6_Witness ==
    /\ LanczosReturnedT
    /\ lanczos.n >= 2
    /\ lanczos.q.kind = "rounded"
    /\ lanczos.V.cols[lanczos.n].kind # "rounded"
    /\ OrthonormalColumns(lanczos.V.cols)
    /\ lanczos.V = Reorthogonalize(lanczos.V, lanczos.n)

\* C7: for a 1 x 1 input [[c]] LanczosTri runs no loop iteration, computes
\* b1 = 0, does not take the breakdown return and returns T = [[c]].
C7_OneByOne ==
    lanczos.n = 1 =>
        /\ lanczos.pc \in {"start", "loop", "returned"}
        /\ lanczos.ctr = 0
        /\ lanczos.pc # "start" => IsZeroNorm(lanczos.b1)
        /\ lanczos.pc = "returned" =>
              /\ lanczos.result = [kind |-> "T", rows |-> 1, cols |-> 1]
              /\ lanczos.T =
                   [known |-> TRUE,
                    entries |-> << <<[num |-> lanczos.A[1][1], nsqRow |-> 1,
                                      nsqCol |-> 1]>> >>]

\* C7 witness: T = [[c]] returned for a 1 x 1 input with c # 0 and b1 = 0.
C7_Witness ==
    /\ lanczos.n = 1
    /\ LanczosReturnedT
    /\ IsZeroNorm(lanczos.b1)
    /\ lanczos.A[1][1] # 0
    /\ lanczos.T.known
    /\ lanczos.T.entries[1][1].num = lanczos.A[1][1]

\* C8: when the solve of B x = u is certain to fail (the factorisation of
\* the singular B meets a zero pivot), the solve in the first iteration fails
\* and IPI ends there with the solver's error: no iteration completes, no
\* estimate is assigned or returned, and nothing follows the error.
C8_SingularInvariant ==
    /\ (ipi.pc # "idle" /\ SolveFails(ipi.A) = {TRUE}) =>
          /\ ipi.pc \in {"start", "test", "body", "return", "raised"}
          /\ ipi.iters = 0
          /\ ~ipi.lam.bound
          /\ ipi.result.kind # "lam"
          /\ ipi.pc = "return" => ipi.tol >= ErrInit
          /\ (ipi.pc = "raised" /\ ipi.tol < ErrInit) =>
                ipi.result.kind = "LinAlgError"
    /\ ipi.result.kind = "LinAlgError" =>
          (ipi.pc = "raised" /\ TRUE \in SolveFails(ipi.A))

\* C8: the solver's error propagates: the invariant above holds in every
\* state; an iteration whose solve is certain to fail ends in the raised
\* error; an iteration that ends in the error (the solve failed) assigns no
\* estimate and counts as none; and no step follows a raised error.
C8_SolveErrorPropagates ==
    /\ []C8_SingularInvariant
    /\ [][(ipi.pc = "body" /\ SolveFails(ipi.A) = {TRUE}) =>
            (ipi'.pc = "raised" /\ ipi'.result.kind = "LinAlgError")]_vars
    /\ [][(ipi.pc = "body" /\ ipi'.pc = "raised") =>
            /\ ipi'.result.kind = "LinAlgError"
            /\ ipi'.lam = ipi.lam
            /\ ipi'.iters = ipi.iters]_vars
    /\ [][ipi.pc = "raised" => ipi' = ipi]_vars

\* C8 witness: IPI ended with the solver's error on a singular 2 x 2 B whose
\* solve is certain to fail.
C8_Witness ==
    /\ ipi.pc = "raised"
    /\ ipi.result.kind = "LinAlgError"
    /\ ipi.n = 2
    /\ SolveFails(ipi.A) = {TRUE}

\* C9 (as claimed): whenever IPI returns, at least two iterations have run
\* and the returned estimate is within tol of that of the iteration before.
C9_TwoIterations ==
    ipi.pc = "returned" =>
        /\ ipi.iters >= 2
        /\ ipi.prev.bound
        /\ Abs(ipi.lam.val - ipi.prev.val) <= ipi.tol

\* C10 (as claimed): NSI reaches its return statement only after at least
\* one loop iteration, with lam assigned to a vector of m values, and so does
\* not raise.
C10_LamAssigned ==
    /\ nsi.pc \in {"return", "returned", "raised"} =>
          (nsi.ctr >= 1 /\ nsi.lam.bound /\ Len(nsi.lam.val) = nsi.m)
    /\ nsi.pc # "raised"

=============================================================================
